---- MODULE Spec2Model ----
(***************************************************************************)
(* consulator: load JSON/YAML configuration from a file tree or stdin,     *)
(* flatten it into a key/value map, then dump it and/or sync it to Consul. *)
(*                                                                         *)
(* Strings are sequences of one-character strings, byte values are         *)
(* sequences of numbers 0..255, so that the string functions of the        *)
(* program (TrimPrefix, TrimSuffix, Ext, Split, ToLower, HasSuffix) are    *)
(* computed character by character as the Go library computes them.        *)
(***************************************************************************)
EXTENDS Integers, Sequences, FiniteSets, TLC

VARIABLES
    prefix,     \* *prefix: the -prefix flag, normalised by main
    format,     \* *format: the -format flag
    dump,       \* *dump
    sync,       \* *sync
    args,       \* flag.Args(): the positional arguments
    nArgs,      \* nArgs = flag.NArg(), set by main
    absPath,    \* absPath, "" until main sets it
    data,       \* the accumulation map, key -> value bytes
    fs,         \* the file tree: pool index -> content of that file
    stdin,      \* content of the standard input
    pc,         \* position of the main goroutine
    walk,       \* the entries filepath.Walk (or the stdin call) hands to parseConfig
    idx,        \* index in walk of the entry being handled
    keyPrefix,  \* keyPrefix of the latest parseConfig call
    call,       \* the latest parseConfig call: its path, and the parser it reached
    opened,     \* the paths passed to os.Open, in order
    log,        \* Warning/Error records written by the main goroutine
    exitCode,   \* process exit code, -1 while running
    exported,   \* the slice exportData marshals, <<>> until it runs
    store,      \* the remote key/value store under the prefix
    plan,       \* the sync plan being applied
    yamlW,      \* per walk entry: the goroutine writing to the pipe
    yamlR       \* the pipe reader side as parseJson consumes it

vars == <<prefix, format, dump, sync, args, nArgs, absPath, data, fs, stdin, pc,
          walk, idx, keyPrefix, call, opened, log, exitCode, exported, store,
          plan, yamlW, yamlR>>

(***************************************************************************)
(* Bounds of the model                                                     *)
(***************************************************************************)
MaxFiles == 2        \* regular files present in the tree
MaxChunks == 2       \* pieces in which a pipe transfers one transcoded document
MaxPrefixLen == 5    \* length of a -prefix value (PrefixSpec)
MaxKeys == 3         \* keys of an accumulation map / remote snapshot (KVSpec)

(***************************************************************************)
(* Go strings                                                              *)
(***************************************************************************)
Sep == "/"           \* os.PathSeparator

HasPrefix(s, p) == Len(p) <= Len(s) /\ SubSeq(s, 1, Len(p)) = p
HasSuffix(s, p) == Len(p) <= Len(s) /\ SubSeq(s, Len(s) - Len(p) + 1, Len(s)) = p

TrimPrefix(s, p) == IF HasPrefix(s, p) THEN SubSeq(s, Len(p) + 1, Len(s)) ELSE s
TrimSuffix(s, p) == IF HasSuffix(s, p) THEN SubSeq(s, 1, Len(s) - Len(p)) ELSE s

Lower(c) ==
    CASE c = "J" -> "j" [] c = "S" -> "s" [] c = "O" -> "o" [] c = "N" -> "n"
      [] c = "Y" -> "y" [] c = "M" -> "m" [] c = "L" -> "l" [] c = "A" -> "a"
      [] OTHER -> c
ToLower(s) == [i \in 1..Len(s) |-> Lower(s[i])]

\* filepath.Ext: the suffix beginning at the final dot in the final element
Ext(p) ==
    LET dots == {i \in 1..Len(p) : p[i] = "." /\ \A j \in i..Len(p) : p[j] # Sep}
    IN  IF dots = {} THEN <<>>
        ELSE SubSeq(p, CHOOSE i \in dots : \A j \in dots : j <= i, Len(p))

\* strings.Split(s, "/"): Split("") is one empty string
RECURSIVE Split(_)
Split(s) ==
    LET seps == {i \in 1..Len(s) : s[i] = Sep}
    IN  IF seps = {} THEN <<s>>
        ELSE LET i == CHOOSE k \in seps : \A j \in seps : k <= j
             IN  <<SubSeq(s, 1, i - 1)>> \o Split(SubSeq(s, i + 1, Len(s)))

\* strings.Join(segs, "/")
RECURSIVE Join(_)
Join(segs) ==
    IF segs = <<>> THEN <<>>
    ELSE IF Len(segs) = 1 THEN segs[1]
    ELSE segs[1] \o <<Sep>> \o Join(Tail(segs))

\* byte order of the characters in use, and the byte-wise order of strings
Alphabet == <<".", "/", "L", "M", "Y", "a", "b", "c", "d", "e", "f", "g", "h", "i", "j",
              "k", "l", "m", "n", "o", "p", "q", "r", "s", "t", "u", "v", "w", "x",
              "y", "z">>
Ord(c) == CHOOSE i \in 1..Len(Alphabet) : Alphabet[i] = c
RECURSIVE Less(_, _)
Less(s, t) ==
    IF t = <<>> THEN FALSE
    ELSE IF s = <<>> THEN TRUE
    ELSE IF Ord(s[1]) # Ord(t[1]) THEN Ord(s[1]) < Ord(t[1])
    ELSE Less(Tail(s), Tail(t))
Least(S) == CHOOSE k \in S : \A j \in S : j = k \/ Less(k, j)

(***************************************************************************)
(* String literals                                                         *)
(***************************************************************************)
S_json == <<"j", "s", "o", "n">>
S_yaml == <<"y", "a", "m", "l">>
S_yml == <<"y", "m", "l">>
S_ini == <<"i", "n", "i">>
S_properties == <<"p", "r", "o", "p", "e", "r", "t", "i", "e", "s">>
S_svc == <<"s", "v", "c">>
S_app == <<"a", "p", "p">>
S_db == <<"d", "b">>
S_web == <<"w", "e", "b">>
S_host == <<"h", "o", "s", "t">>
S_port == <<"p", "o", "r", "t">>
S_data == <<"/", "d", "a", "t", "a">>
Dot(ext) == <<".">> \o ext

(***************************************************************************)
(* Inputs: the file tree, the documents, the flags                         *)
(***************************************************************************)
\* The candidate entries under /data, in the lexical order filepath.Walk visits
Pool == <<
    [path |-> S_data, regular |-> FALSE],
    [path |-> S_data \o <<Sep>> \o Dot(S_json), regular |-> TRUE],
    [path |-> S_data \o <<Sep>> \o S_app, regular |-> FALSE],
    [path |-> S_data \o <<Sep>> \o S_app \o <<Sep>> \o Dot(S_yaml), regular |-> TRUE],
    [path |-> S_data \o <<Sep>> \o S_app \o <<Sep>> \o S_db \o Dot(S_json), regular |-> TRUE],
    [path |-> S_data \o <<Sep>> \o S_app \o <<Sep>> \o S_web \o <<".", "Y", "M", "L">>, regular |-> TRUE],
    [path |-> S_data \o <<Sep>> \o <<"k">> \o Dot(S_ini), regular |-> TRUE] >>

Files == {i \in 1..Len(Pool) : Pool[i].regular}
Contents == {"absent", "good", "bad", "unreadable"}
Present(f, i) == ~Pool[i].regular \/ f[i] # "absent"

\* the documents {"host":"x"} (in the .json sources) and {"port":"80"} (in the others)
DocHost == [k \in {S_host} |-> <<120>>]
DocPort == [k \in {S_port} |-> <<56, 48>>]
DocOf(path) == IF HasSuffix(ToLower(path), Dot(S_json)) THEN DocHost ELSE DocPort

EmptyMap == [k \in {} |-> <<>>]
Merge(f, g) == [k \in DOMAIN f \cup DOMAIN g |-> IF k \in DOMAIN g THEN g[k] ELSE f[k]]

RawPrefixes == {<<>>, S_svc}
Formats == {<<>>, S_json, S_yaml, S_ini}
RootArgs == {Pool[1].path, Pool[3].path, Pool[5].path}

FileTrees ==
    {f \in [1..Len(Pool) -> Contents] :
        /\ \A i \in 1..Len(Pool) : ~Pool[i].regular => f[i] = "good"
        /\ f[Len(Pool)] \in {"absent", "good"}
        /\ Cardinality({i \in Files : f[i] # "absent"}) <= MaxFiles}
NoTree == [i \in 1..Len(Pool) |-> IF Pool[i].regular THEN "absent" ELSE "good"]

\* What the remote store may hold before the run
S_svc_app_db_host == S_svc \o <<Sep>> \o S_app \o <<Sep>> \o S_db \o <<Sep>> \o S_host
S_svc_old == S_svc \o <<Sep, "o", "l", "d">>
Remote == [k \in {S_svc_app_db_host, S_svc_old} |-> IF k = S_svc_old THEN <<120>> ELSE <<122>>]

Idle == [st |-> "idle", left |-> 0]
NoReader == [got |-> 0, need |-> 0, valid |-> FALSE]
NoPlan == [put |-> {}, del |-> {}, snapshot |-> EmptyMap]
NoCall == [path |-> <<>>, regular |-> FALSE, parser |-> "none"]

TypeOK ==
    /\ dump \in BOOLEAN /\ sync \in BOOLEAN
    /\ nArgs \in 0..2
    /\ exitCode \in {-1, 0, 1, 255}
    /\ idx \in 0..(Len(walk) + 1)

Init ==
    /\ prefix \in RawPrefixes
    /\ dump \in BOOLEAN
    /\ sync = dump
    /\ \/ /\ args = <<>>
          /\ format \in Formats
          /\ stdin \in {"good", "bad"}
          /\ fs = NoTree
       \/ /\ args \in {<<r>> : r \in RootArgs}
          /\ format = <<>>
          /\ stdin = "good"
          /\ fs \in FileTrees
       \/ /\ args = <<Pool[1].path, Pool[3].path>>
          /\ format \in {<<>>, S_json}
          /\ stdin = "good"
          /\ fs = NoTree
    /\ nArgs = 0
    /\ absPath = <<>>
    /\ data = EmptyMap
    /\ pc = "start"
    /\ walk = <<>>
    /\ idx = 0
    /\ keyPrefix = <<>>
    /\ call = NoCall
    /\ opened = <<>>
    /\ log = <<>>
    /\ exitCode = -1
    /\ exported = <<>>
    /\ store = Remote
    /\ plan = NoPlan
    /\ yamlW = <<>>
    /\ yamlR = NoReader

(***************************************************************************)
(* main: flags and dispatch on the argument count                          *)
(***************************************************************************)
\* strings.TrimSuffix(strings.TrimPrefix(*prefix, "/"), "/"), then "/" appended
CleanPrefix(p) ==
    LET t == TrimSuffix(TrimPrefix(p, <<Sep>>), <<Sep>>)
    IN  IF t # <<>> THEN t \o <<Sep>> ELSE t

Logged(lg, level, at, p) == Append(lg, [level |-> level, at |-> at, path |-> p])

\* Error.Fatal / Error.Fatalf: log.Logger.Fatal writes the record and calls os.Exit(1)
Fatal(lg, at, p) ==
    /\ log' = Logged(lg, "Error", at, p)
    /\ exitCode' = 1
    /\ pc' = "exit"

Start ==
    /\ pc = "start"
    /\ prefix' = CleanPrefix(prefix)
    /\ nArgs' = Len(args)
    /\ data' = EmptyMap
    /\ pc' = "switch"
    /\ UNCHANGED <<format, dump, sync, args, absPath, fs, stdin, walk, idx, keyPrefix,
                   call, opened, log, exitCode, exported, store, plan, yamlW, yamlR>>

\* stdin without a usable -format: usage() and os.Exit(1)
StdinUsage ==
    /\ pc = "switch"
    /\ nArgs = 0
    /\ format \notin {S_json, S_yaml}
    /\ log' = Logged(log, "Error", "usage", <<>>)
    /\ exitCode' = 1
    /\ pc' = "exit"
    /\ UNCHANGED <<prefix, format, dump, sync, args, nArgs, absPath, data, fs, stdin,
                   walk, idx, keyPrefix, call, opened, exported, store, plan, yamlW,
                   yamlR>>

\* stdin with -format json|yaml: one parseConfig call on ".<format>"
StdinParse ==
    /\ pc = "switch"
    /\ nArgs = 0
    /\ format \in {S_json, S_yaml}
    /\ walk' = <<[path |-> Dot(format), regular |-> FALSE, content |-> stdin]>>
    /\ idx' = 1
    /\ yamlW' = <<Idle>>
    /\ pc' = "walk"
    /\ UNCHANGED <<prefix, format, dump, sync, args, nArgs, absPath, data, fs, stdin,
                   keyPrefix, call, opened, log, exitCode, exported, store, plan,
                   yamlR>>

Exists(f, p) == \E i \in 1..Len(Pool) : Pool[i].path = p /\ Present(f, i)

\* The entries filepath.Walk(root) visits: root, then what is under it, in lexical order
WalkList(f, root) ==
    LET all == [i \in 1..Len(Pool) |->
                   [path |-> Pool[i].path, regular |-> Pool[i].regular,
                    content |-> f[i]]]
        Under(e) == /\ e.content # "absent"
                    /\ \/ e.path = root
                       \/ HasPrefix(e.path, root \o <<Sep>>)
    IN  SelectSeq(all, Under)

\* one argument, os.Stat fails
StatFail ==
    /\ pc = "switch"
    /\ nArgs = 1
    /\ ~Exists(fs, args[1])
    /\ absPath' = args[1]
    /\ Fatal(log, "stat", args[1])
    /\ UNCHANGED <<prefix, format, dump, sync, args, nArgs, data, fs, stdin, walk, idx,
                   keyPrefix, call, opened, exported, store, plan, yamlW, yamlR>>

\* one argument that exists: filepath.Walk(absPath, parseConfig) begins
WalkStart ==
    /\ pc = "switch"
    /\ nArgs = 1
    /\ Exists(fs, args[1])
    /\ absPath' = args[1]
    /\ walk' = WalkList(fs, args[1])
    /\ idx' = 1
    /\ yamlW' = [i \in 1..Len(WalkList(fs, args[1])) |-> Idle]
    /\ pc' = "walk"
    /\ UNCHANGED <<prefix, format, dump, sync, args, nArgs, data, fs, stdin, keyPrefix,
                   call, opened, log, exitCode, exported, store, plan, yamlR>>

\* more than one argument: usage() and os.Exit(255)
ArgsUsage ==
    /\ pc = "switch"
    /\ nArgs \notin {0, 1}
    /\ log' = Logged(log, "Error", "usage", <<>>)
    /\ exitCode' = 255
    /\ pc' = "exit"
    /\ UNCHANGED <<prefix, format, dump, sync, args, nArgs, absPath, data, fs, stdin,
                   walk, idx, keyPrefix, call, opened, exported, store, plan, yamlW,
                   yamlR>>

(***************************************************************************)
(* parseConfig                                                             *)
(***************************************************************************)
\* keyPrefix: the path without the root, the extension and the leading separator,
\* split at the separators; a leading "" makes it empty
KeyPrefix_KeepExt(path, root) ==
    LET segs == Split(TrimPrefix(TrimPrefix(path, root), <<Sep>>))
    IN  IF segs[1] = <<>> THEN <<>> ELSE segs

KeyPrefix(path, root) ==
    LET segs == Split(TrimPrefix(TrimSuffix(TrimPrefix(path, root), Ext(path)),
                                 <<Sep>>))
    IN  IF segs[1] = <<>> THEN <<>> ELSE segs

\* the case of the switch on the lower-cased path
Kind(path) ==
    LET p == ToLower(path)
    IN  IF HasSuffix(p, Dot(S_json)) THEN "json"
        ELSE IF HasSuffix(p, Dot(S_yml)) \/ HasSuffix(p, Dot(S_yaml)) THEN "yaml"
        ELSE IF HasSuffix(p, Dot(S_properties)) THEN "properties"
        ELSE IF HasSuffix(p, Dot(S_ini)) THEN "ini"
        ELSE "default"

\* parseJson's decode of a whole document: the tree, or an error
Decode(content, path) ==
    IF content = "good" THEN [ok |-> TRUE, doc |-> DocOf(path)]
    ELSE [ok |-> FALSE, doc |-> EmptyMap]

\* the flat key of document key k under keyPrefix kp
FlatKey(kp, k) == prefix \o Join(kp \o <<k>>)

\* the flattener: every (key, scalar) of the document goes into the map, last writer wins
Flatten(doc, kp, into) ==
    LET keys == {FlatKey(kp, k) : k \in DOMAIN doc}
    IN  Merge(into, [fk \in keys |-> doc[CHOOSE k \in DOMAIN doc : FlatKey(kp, k) = fk]])

\* the entry is opened when it is a regular file of a walk; stdin is used otherwise
Opens(e) == e.regular /\ nArgs = 1
OpenLog(e) ==
    IF Opens(e) /\ e.content = "unreadable"
    THEN Logged(log, "Warning", "open", e.path) ELSE log

\* "return nil": the walk goes on with the next entry
ReturnNil ==
    /\ pc' = "walk"
    /\ idx' = idx + 1
    /\ exitCode' = exitCode

\* parseJson failed on a .json source: a warning only
OnJsonError_Warn(e) ==
    /\ log' = Logged(OpenLog(e), "Warning", "json", e.path)
    /\ ReturnNil

\* parseJson failed on a .json source: Error.Fatalf
OnJsonError(e) ==
    /\ Fatal(OpenLog(e), "json", e.path)
    /\ idx' = idx

\* parseJson failed on the pipe of a .yml/.yaml source: fatal
OnYamlError_Fatal(e) ==
    /\ Fatal(log, "yaml", e.path)
    /\ idx' = idx

\* parseJson failed on the pipe of a .yml/.yaml source: Warning.Printf, then return nil
OnYamlError(e) ==
    /\ log' = Logged(log, "Warning", "yaml", e.path)
    /\ ReturnNil

\* a directory (or anything not regular) met by the walk: return nil at once
ParseSkip ==
    /\ pc = "walk"
    /\ idx <= Len(walk)
    /\ ~walk[idx].regular /\ nArgs # 0
    /\ call' = [path |-> walk[idx].path, regular |-> FALSE, parser |-> "none"]
    /\ ReturnNil
    /\ UNCHANGED <<prefix, format, dump, sync, args, nArgs, absPath, data, fs, stdin,
                   walk, keyPrefix, opened, log, exported, store, plan, yamlW, yamlR>>

Entered(e) ==
    /\ pc = "walk"
    /\ idx <= Len(walk)
    /\ e = walk[idx]
    /\ Opens(e) \/ nArgs = 0
    /\ opened' = IF Opens(e) THEN Append(opened, e.path) ELSE opened
    /\ keyPrefix' = KeyPrefix(e.path, absPath)

\* a .json source: decoded and flattened, or fatal
ParseJsonFile ==
    \E e \in {walk[i] : i \in DOMAIN walk} :
        /\ Entered(e)
        /\ Kind(e.path) = "json"
        /\ call' = [path |-> e.path, regular |-> e.regular, parser |-> "json"]
        /\ LET r == Decode(e.content, e.path)
           IN  IF r.ok
               THEN /\ data' = Flatten(r.doc, KeyPrefix(e.path, absPath), data)
                    /\ log' = OpenLog(e)
                    /\ ReturnNil
               ELSE /\ data' = data
                    /\ OnJsonError(e)
        /\ UNCHANGED <<prefix, format, dump, sync, args, nArgs, absPath, fs, stdin,
                       walk, exported, store, plan, yamlW, yamlR>>

\* .properties, .ini and every other name: nothing is parsed
ParseNoop ==
    \E e \in {walk[i] : i \in DOMAIN walk} :
        /\ Entered(e)
        /\ Kind(e.path) \in {"properties", "ini", "default"}
        /\ call' = [path |-> e.path, regular |-> e.regular, parser |-> "none"]
        /\ log' = OpenLog(e)
        /\ ReturnNil
        /\ UNCHANGED <<prefix, format, dump, sync, args, nArgs, absPath, data, fs,
                       stdin, walk, exported, store, plan, yamlW, yamlR>>

(***************************************************************************)
(* The .yml/.yaml case: a goroutine transcodes into an io.Pipe, parseJson   *)
(* reads the other end.  A pipe write blocks until the reader has consumed  *)
(* all of it or the read end is closed; parseConfig never closes yamlR.     *)
(***************************************************************************)
\* The transcoder's output: `left` pieces to hand over; a document is complete after
\* `need` of them (anything after is trailing output); a failing transcode never
\* completes one
Transcoded(content) ==
    IF content = "good"
    THEN {[left |-> n, need |-> n - t, valid |-> TRUE] :
              n \in 1..MaxChunks, t \in {0, 1}} \ {[left |-> 1, need |-> 0, valid |-> TRUE]}
    ELSE IF content = "bad"
    THEN {[left |-> n, need |-> 0, valid |-> FALSE] : n \in 0..MaxChunks}
    ELSE {[left |-> 0, need |-> 0, valid |-> FALSE]}

\* io.Pipe(), go func(){...}(), and the call of parseJson(yamlR, keyPrefix)
YamlSpawn ==
    \E e \in {walk[i] : i \in DOMAIN walk} :
        /\ Entered(e)
        /\ Kind(e.path) = "yaml"
        /\ call' = [path |-> e.path, regular |-> e.regular, parser |-> "yaml"]
        /\ log' = OpenLog(e)
        /\ \E t \in Transcoded(e.content) :
              /\ yamlW' = [yamlW EXCEPT ![idx] = [st |-> "run", left |-> t.left]]
              /\ yamlR' = [got |-> 0, need |-> t.need, valid |-> t.valid]
        /\ pc' = "yaml"
        /\ UNCHANGED <<prefix, format, dump, sync, args, nArgs, absPath, data, fs,
                       stdin, walk, idx, exitCode, exported, store, plan>>

\* the goroutine calls yamlW.Write and blocks in it
ProducerWrite(i) ==
    /\ i \in DOMAIN yamlW
    /\ yamlW[i].st = "run"
    /\ yamlW[i].left > 0
    /\ yamlW' = [yamlW EXCEPT ![i].st = "write"]
    /\ UNCHANGED <<prefix, format, dump, sync, args, nArgs, absPath, data, fs, stdin,
                   pc, walk, idx, keyPrefix, call, opened, log, exitCode, exported,
                   store, plan, yamlR>>

\* yamlToJson returned (with or without an error); the deferred yamlW.Close() runs
ProducerClose(i) ==
    /\ i \in DOMAIN yamlW
    /\ yamlW[i].st = "run"
    /\ yamlW[i].left = 0
    /\ yamlW' = [yamlW EXCEPT ![i].st = "closed"]
    /\ UNCHANGED <<prefix, format, dump, sync, args, nArgs, absPath, data, fs, stdin,
                   pc, walk, idx, keyPrefix, call, opened, log, exitCode, exported,
                   store, plan, yamlR>>

\* parseJson reads what the blocked write offers; the write returns
ConsumerRead ==
    /\ pc = "yaml"
    /\ yamlW[idx].st = "write"
    /\ yamlW' = [yamlW EXCEPT ![idx] = [st |-> "run", left |-> @.left - 1]]
    /\ yamlR' = [yamlR EXCEPT !.got = @ + 1]
    /\ UNCHANGED <<prefix, format, dump, sync, args, nArgs, absPath, data, fs, stdin,
                   pc, walk, idx, keyPrefix, call, opened, log, exitCode, exported,
                   store, plan>>

Complete == yamlR.valid /\ yamlR.got >= yamlR.need

\* parseJson has a whole document: it is flattened and parseJson returns nil
ConsumerValue ==
    /\ pc = "yaml"
    /\ Complete
    /\ data' = Flatten(Decode("good", walk[idx].path).doc, keyPrefix, data)
    /\ ReturnNil
    /\ UNCHANGED <<prefix, format, dump, sync, args, nArgs, absPath, fs, stdin, walk,
                   keyPrefix, call, opened, log, exported, store, plan, yamlW, yamlR>>

\* parseJson meets the end of the pipe before a whole document, or a syntax error in
\* what a failing transcode wrote: it returns the error
ConsumerError ==
    /\ pc = "yaml"
    /\ ~Complete
    /\ \/ yamlW[idx].st = "closed"
       \/ ~yamlR.valid /\ yamlR.got > 0
    /\ OnYamlError(walk[idx])
    /\ UNCHANGED <<prefix, format, dump, sync, args, nArgs, absPath, data, fs, stdin,
                   walk, keyPrefix, call, opened, exported, store, plan, yamlW, yamlR>>

(***************************************************************************)
(* main after the walk: "Found %d keys", exportData, syncConsul            *)
(***************************************************************************)
\* filepath.Walk returned nil (parseConfig never returns an error)
WalkDone ==
    /\ pc = "walk"
    /\ idx > Len(walk)
    /\ pc' = "found"
    /\ UNCHANGED <<prefix, format, dump, sync, args, nArgs, absPath, data, fs, stdin,
                   walk, idx, keyPrefix, call, opened, log, exitCode, exported, store,
                   plan, yamlW, yamlR>>

\* standard base64 of a byte string, as sextets 0..63 with 64 for the padding "="
RECURSIVE Base64(_)
Base64(b) ==
    IF Len(b) = 0 THEN <<>>
    ELSE IF Len(b) = 1 THEN <<b[1] \div 4, (b[1] % 4) * 16, 64, 64>>
    ELSE IF Len(b) = 2
    THEN <<b[1] \div 4, (b[1] % 4) * 16 + (b[2] \div 16), (b[2] % 16) * 4, 64>>
    ELSE <<b[1] \div 4, (b[1] % 4) * 16 + (b[2] \div 16),
           (b[2] % 16) * 4 + (b[3] \div 64), b[3] % 64>>
         \o Base64(SubSeq(b, 4, Len(b)))

RECURSIVE UnBase64(_)
UnBase64(s) ==
    IF Len(s) < 4 THEN <<>>
    ELSE (IF s[3] = 64 THEN <<s[1] * 4 + (s[2] \div 16)>>
          ELSE IF s[4] = 64
          THEN <<s[1] * 4 + (s[2] \div 16), (s[2] % 16) * 16 + (s[3] \div 4)>>
          ELSE <<s[1] * 4 + (s[2] \div 16), (s[2] % 16) * 16 + (s[3] \div 4),
                 (s[3] % 4) * 64 + s[4]>>)
         \o UnBase64(SubSeq(s, 5, Len(s)))

\* a nil *kvExportEntry, and the entry toExportEntry builds
NilEntry == [nil |-> TRUE, key |-> <<>>, flags |-> 0, value |-> <<>>]
toExportEntry(key, val) == [nil |-> FALSE, key |-> key, flags |-> 0, value |-> Base64(val)]

\* the orders in which "for key, val := range data" may deliver the keys
RangeOrders(m) ==
    {o \in [1..Cardinality(DOMAIN m) -> DOMAIN m] :
        \A i, j \in DOMAIN o : i # j => o[i] # o[j]}

\* i++ left out
NextIndex_Stuck(i) == i

\* i++
NextIndex(i) == i + 1

\* the loop of exportData over one range order: exported[i] = toExportEntry(key, val)
RECURSIVE ExportLoop(_, _, _)
ExportLoop(order, i, out) ==
    IF order = <<>> THEN out
    ELSE ExportLoop(Tail(order), NextIndex(i),
                    [out EXCEPT ![i + 1] = toExportEntry(Head(order), data[Head(order)])])

\* if *dump { exportData() }
ExportData ==
    /\ pc = "found"
    /\ dump
    /\ \E order \in RangeOrders(data) :
          exported' = ExportLoop(order, 0, [i \in 1..Cardinality(DOMAIN data) |-> NilEntry])
    /\ pc' = "dumped"
    /\ UNCHANGED <<prefix, format, dump, sync, args, nArgs, absPath, data, fs, stdin,
                   walk, idx, keyPrefix, call, opened, log, exitCode, store, plan,
                   yamlW, yamlR>>

NoDump ==
    /\ pc = "found"
    /\ ~dump
    /\ pc' = "dumped"
    /\ UNCHANGED <<prefix, format, dump, sync, args, nArgs, absPath, data, fs, stdin,
                   walk, idx, keyPrefix, call, opened, log, exitCode, exported, store,
                   plan, yamlW, yamlR>>

\* the sync plan of local map L against remote snapshot R
ToCreate(L, R) == DOMAIN L \ DOMAIN R
ToUpdate(L, R) == {k \in DOMAIN L \cap DOMAIN R : L[k] # R[k]}
ToDelete_LocalOnly(L, R) == {}
ToDelete(L, R) == DOMAIN R \ DOMAIN L
Reconcile(L, R) ==
    [put |-> ToCreate(L, R) \cup ToUpdate(L, R), del |-> ToDelete(L, R), snapshot |-> R]

\* if *sync { syncConsul() }: the snapshot is fetched once and the plan computed
SyncConsul ==
    /\ pc = "dumped"
    /\ sync
    /\ plan' = Reconcile(data, store)
    /\ pc' = "apply"
    /\ UNCHANGED <<prefix, format, dump, sync, args, nArgs, absPath, data, fs, stdin,
                   walk, idx, keyPrefix, call, opened, log, exitCode, exported, store,
                   yamlW, yamlR>>

\* one put of the plan (the puts go first, in key order)
ApplyPut ==
    /\ pc = "apply"
    /\ plan.put # {}
    /\ LET k == Least(plan.put) IN
          /\ store' = Merge(store, [x \in {k} |-> data[k]])
          /\ plan' = [plan EXCEPT !.put = @ \ {k}]
    /\ UNCHANGED <<prefix, format, dump, sync, args, nArgs, absPath, data, fs, stdin,
                   pc, walk, idx, keyPrefix, call, opened, log, exitCode, exported,
                   yamlW, yamlR>>

\* one delete of the plan (the deletes go last, in key order)
ApplyDelete ==
    /\ pc = "apply"
    /\ plan.put = {}
    /\ plan.del # {}
    /\ LET k == Least(plan.del) IN
          /\ store' = [x \in DOMAIN store \ {k} |-> store[x]]
          /\ plan' = [plan EXCEPT !.del = @ \ {k}]
    /\ UNCHANGED <<prefix, format, dump, sync, args, nArgs, absPath, data, fs, stdin,
                   pc, walk, idx, keyPrefix, call, opened, log, exitCode, exported,
                   yamlW, yamlR>>

\* main returns: exit code 0
Exit ==
    /\ \/ pc = "dumped" /\ ~sync
       \/ pc = "apply" /\ plan.put = {} /\ plan.del = {}
    /\ pc' = "exit"
    /\ exitCode' = 0
    /\ UNCHANGED <<prefix, format, dump, sync, args, nArgs, absPath, data, fs, stdin,
                   walk, idx, keyPrefix, call, opened, log, exported, store, plan,
                   yamlW, yamlR>>

(***************************************************************************)
(* The program                                                             *)
(***************************************************************************)
Producer(i) == ProducerWrite(i) \/ ProducerClose(i)
MaxWalk == Len(Pool)

Main ==
    \/ Start
    \/ StdinUsage
    \/ StdinParse
    \/ StatFail
    \/ WalkStart
    \/ ArgsUsage
    \/ ParseSkip
    \/ ParseJsonFile
    \/ ParseNoop
    \/ YamlSpawn
    \/ ConsumerRead
    \/ ConsumerValue
    \/ ConsumerError
    \/ WalkDone
    \/ ExportData
    \/ NoDump
    \/ SyncConsul
    \/ ApplyPut
    \/ ApplyDelete
    \/ Exit

Next ==
    \/ Main
    \/ \E i \in 1..MaxWalk : Producer(i)

Spec == Init /\ [][Next]_vars

(***************************************************************************)
(* The YAML sources on their own: stdin as yaml, or the walk of /data/app, *)
(* without -dump and -sync; the scheduler runs every goroutine that can    *)
(* take a step                                                             *)
(***************************************************************************)
YamlInit ==
    /\ Init
    /\ ~dump
    /\ \/ args = <<>> /\ format = S_yaml
       \/ args = <<Pool[3].path>>

YamlMain ==
    \/ Start
    \/ StdinParse
    \/ WalkStart
    \/ ParseSkip
    \/ ParseJsonFile
    \/ YamlSpawn
    \/ ConsumerRead
    \/ ConsumerValue
    \/ ConsumerError
    \/ WalkDone
    \/ NoDump
    \/ Exit

YamlNext ==
    \/ YamlMain
    \/ \E i \in 1..MaxWalk : Producer(i)

YamlSpec ==
    /\ YamlInit /\ [][YamlNext]_vars
    /\ WF_vars(YamlMain)
    /\ \A i \in 1..MaxWalk : WF_vars(Producer(i))

(***************************************************************************)
(* Prefix normalisation on its own: every -prefix value up to MaxPrefixLen *)
(***************************************************************************)
Strings(n) == UNION {[1..k -> {Sep, "a"}] : k \in 0..n}

PrefixInit ==
    /\ prefix \in Strings(MaxPrefixLen)
    /\ dump = FALSE
    /\ sync = FALSE
    /\ args = <<>>
    /\ format = <<>>
    /\ stdin = "good"
    /\ fs = NoTree
    /\ nArgs = 0
    /\ absPath = <<>>
    /\ data = EmptyMap
    /\ pc = "start"
    /\ walk = <<>>
    /\ idx = 0
    /\ keyPrefix = <<>>
    /\ call = NoCall
    /\ opened = <<>>
    /\ log = <<>>
    /\ exitCode = -1
    /\ exported = <<>>
    /\ store = EmptyMap
    /\ plan = NoPlan
    /\ yamlW = <<>>
    /\ yamlR = NoReader

PrefixNext == Start \/ StdinUsage

PrefixSpec == PrefixInit /\ [][PrefixNext]_vars

(***************************************************************************)
(* Export and sync on their own, from the point main reaches after the     *)
(* walk: every accumulation map over MaxKeys keys, every remote snapshot   *)
(* over the same keys                                                      *)
(***************************************************************************)
KeyPool == <<<<"a">>, <<"a", Sep, "b">>, <<"b">>, S_svc \o <<Sep>> \o S_host, <<"z">>>>
Keys == {KeyPool[i] : i \in {j \in 1..MaxKeys : j <= Len(KeyPool)}}
Values == {<<>>, <<120>>, <<195, 169>>, <<104, 111, 115, 116>>}
RemoteValues == {<<120>>, <<122>>}
Maps(K, V) == UNION {[S -> V] : S \in SUBSET K}

KVInit ==
    /\ data \in Maps(Keys, Values)
    /\ dump \in BOOLEAN
    /\ sync = ~dump
    /\ store \in IF sync THEN Maps(Keys, RemoteValues) ELSE {EmptyMap}
    /\ pc = "found"
    /\ prefix = <<>>
    /\ args = <<S_data>>
    /\ format = <<>>
    /\ stdin = "good"
    /\ fs = NoTree
    /\ nArgs = 1
    /\ absPath = S_data
    /\ walk = <<>>
    /\ idx = 1
    /\ keyPrefix = <<>>
    /\ call = NoCall
    /\ opened = <<>>
    /\ log = <<>>
    /\ exitCode = -1
    /\ exported = <<>>
    /\ plan = NoPlan
    /\ yamlW = <<>>
    /\ yamlR = NoReader

KVNext == ExportData \/ NoDump \/ SyncConsul \/ ApplyPut \/ ApplyDelete \/ Exit

KVSpec == KVInit /\ [][KVNext]_vars

(***************************************************************************)
(* Properties                                                              *)
(***************************************************************************)
Dumped == dump /\ pc \in {"dumped", "apply", "exit"} /\ exitCode \in {-1, 0}
Failed(at) == \E i \in DOMAIN log : log[i].at = at
S_svc_app_host == S_svc \o <<Sep>> \o S_app \o <<Sep>> \o S_host

\* the spec's example: root /data, file /data/app/db.json, prefix svc
C1_Case ==
    /\ absPath = S_data
    /\ call.path = Pool[5].path
    /\ call.parser = "json"
    /\ prefix = S_svc \o <<Sep>>

\* C1 as stated: the segments handed to the flattener for root /data, file
\* /data/app/db.json and prefix svc are ["svc", "app"], and {"host":"x"} yields the
\* flat key svc/app/host
C1_Original ==
    C1_Case =>
        /\ keyPrefix = <<S_svc, S_app>>
        /\ fs[5] = "good" => S_svc_app_host \in DOMAIN data

\* C1 amended: the segments handed to the flattener are ["app", "db"] (root and
\* extension stripped, the file's base name kept, the prefix not among them); the
\* normalised prefix is "svc/", and {"host":"x"} yields the flat key svc/app/db/host
C1_Amended ==
    C1_Case =>
        /\ keyPrefix = <<S_app, S_db>>
        /\ fs[5] = "good" =>
              /\ S_svc_app_db_host \in DOMAIN data
              /\ data[S_svc_app_db_host] = <<120>>
              /\ S_svc_app_host \notin DOMAIN data

C1_Witness == C1_Case /\ fs[5] = "good" /\ pc = "walk" /\ S_svc_app_db_host \in DOMAIN data

UsageError ==
    \/ Len(args) = 0 /\ format \notin {S_json, S_yaml}
    \/ Len(args) \notin {0, 1}

\* C2: every usage error exits with code 255 before any work: nothing is parsed, the
\* accumulation map is empty, neither dump nor sync has run
C2_Claim ==
    (pc = "exit" /\ UsageError) =>
        /\ exitCode = 255
        /\ DOMAIN data = {}
        /\ walk = <<>> /\ opened = <<>> /\ call = NoCall
        /\ exported = <<>> /\ plan = NoPlan

\* C3: once parseJson has failed on a .json source the run is over: the process has
\* exited with the fatal code, exportData and syncConsul have not run, and from then on
\* no file is opened, nothing is flattened, dumped or synced
C3_Thm ==
    /\ [](Failed("json") =>
            /\ pc = "exit" /\ exitCode = 1
            /\ exported = <<>> /\ plan = NoPlan
            /\ log[Len(log)].path = walk[idx].path
            /\ nArgs = 1 => opened[Len(opened)] = walk[idx].path)
    /\ [][Failed("json") =>
            UNCHANGED <<pc, idx, call, opened, data, exitCode, exported, store, plan>>]_vars

C3_Witness ==
    /\ Failed("json") /\ pc = "exit"
    /\ dump /\ sync /\ nArgs = 1
    /\ idx < Len(walk) /\ walk[Len(walk)].regular

\* the flat key a .yml/.yaml entry contributes when it is flattened
YamlKey(e) == FlatKey(KeyPrefix(e.path, absPath), S_port)

\* C4: a failed YAML source only warns and contributes nothing: the step that logs the
\* warning leaves the accumulation map as it was and returns nil to the walk, which goes
\* on with the next entry; no key of such a source is ever in the map
C4_Thm ==
    /\ [][(Len(log') > Len(log) /\ log'[Len(log')].at = "yaml") =>
            /\ log'[Len(log')].level = "Warning"
            /\ data' = data
            /\ pc' = "walk" /\ idx' = idx + 1 /\ exitCode' = -1]_vars
    /\ [](\A i \in DOMAIN walk :
            (Kind(walk[i].path) = "yaml" /\ walk[i].content # "good")
                => YamlKey(walk[i]) \notin DOMAIN data)

C4_Witness ==
    /\ pc = "exit" /\ exitCode = 0 /\ dump /\ sync
    /\ \E i, j \in DOMAIN walk :
          /\ i < j
          /\ Kind(walk[i].path) = "yaml" /\ walk[i].content = "bad"
          /\ \E n \in DOMAIN log : log[n].at = "yaml" /\ log[n].path = walk[i].path
          /\ walk[j].content = "good" /\ Kind(walk[j].path) = "yaml"
          /\ YamlKey(walk[j]) \in DOMAIN data
    /\ Len(exported) = 1

\* C5: the exported entries are in ascending key order
C5_Claim ==
    Dumped => \A i \in 1..(Len(exported) - 1) : Less(exported[i].key, exported[i + 1].key)

\* C6: export is a bijection on keys: as many entries as keys, no nil slot, every key in
\* exactly one entry, and decoding the entries gives back the map
C6_Thm ==
    Dumped =>
        /\ Len(exported) = Cardinality(DOMAIN data)
        /\ \A i \in DOMAIN exported : ~exported[i].nil
        /\ \A k \in DOMAIN data :
              /\ Cardinality({i \in DOMAIN exported : exported[i].key = k}) = 1
              /\ \A i \in DOMAIN exported :
                    exported[i].key = k => UnBase64(exported[i].value) = data[k]
        /\ \A i \in DOMAIN exported : exported[i].key \in DOMAIN data

C6_Witness ==
    /\ Dumped
    /\ Cardinality(DOMAIN data) >= 3
    /\ {Len(data[k]) : k \in DOMAIN data} = {1, 2, 4}

\* C7: after the sync plan has been applied to a store that held the snapshot, the
\* store holds exactly the local map: the same keys with the local values
C7_Thm ==
    (pc = "exit" /\ exitCode = 0 /\ sync) =>
        /\ DOMAIN store = DOMAIN data
        /\ \A k \in DOMAIN data : store[k] = data[k]

C7_Witness ==
    /\ pc = "exit" /\ exitCode = 0 /\ sync
    /\ ToCreate(data, plan.snapshot) # {}
    /\ ToUpdate(data, plan.snapshot) # {}
    /\ DOMAIN plan.snapshot \ DOMAIN data # {}

WellFormed(kp) ==
    \A i \in DOMAIN kp : kp[i] # <<>> /\ \A j \in DOMAIN kp[i] : kp[i][j] # Sep

\* C8: the keyPrefix derived for a regular file is empty or made of non-empty segments
\* without a separator
C8_Claim == call.regular => WellFormed(keyPrefix)

Normalised(p) ==
    \/ p = <<>>
    \/ /\ p[1] # Sep
       /\ p[Len(p)] = Sep
       /\ Len(p) > 1 => p[Len(p) - 1] # Sep

\* C9: the normalised prefix is empty, or has no leading "/" and ends with exactly one
\* "/"; normalising it again leaves it unchanged
C9_Claim == pc # "start" => (Normalised(prefix) /\ CleanPrefix(prefix) = prefix)

Running(i) == i \in DOMAIN yamlW /\ yamlW[i].st \in {"run", "write"}

\* C10: every goroutine started for a .yml/.yaml source eventually returns and closes
\* the write end of its pipe: whenever one is running, a time comes when none is
C10_Claim == (\E i \in 1..MaxWalk : Running(i)) ~> (\A i \in 1..MaxWalk : ~Running(i))

====
